---------------------------- MODULE Spec2Model ----------------------------
(* Lifecycle of the ibm_resource_instance resource                          *)
(* (src/ibm/resource_ibm_resource_instance.go): the Create, Read, Update,   *)
(* Delete and Exists callbacks, the three waitForResourceInstance* polls    *)
(* and filterDeployments.  The remote resource controller, the catalog and  *)
(* the tag service are the environment: every call to them answers with a   *)
(* nondeterministically chosen response.                                    *)
EXTENDS Integers, Sequences, FiniteSets, TLC

VARIABLES
    id,          \* d.Id(): the stored identifier, "" when unset
    op,          \* the callback that runs, or ran last
    pc,          \* position inside the callback, "idle" between callbacks
    ret,         \* what the last callback returned: none | ok | err | panic
    existsRet,   \* the boolean Exists returned: none | true | false
    idAtStart,   \* d.Id() when the callback was entered
    reqResp,     \* response to the callback's own remote request
    createdId,   \* *instance.ID of the CreateResourceInstance response
    fetched,     \* responses of GetResourceInstance inside the running poll
    pollResult,  \* how WaitForState ended
    pollInst,    \* index in fetched of the instance WaitForState returned
    changed,     \* fields for which d.HasChange holds (Update)
    tagsDone,    \* tag reconciliation: none | skipped | ok | failed
    formatted,   \* timestamp fields Read set from .String()
    timestamps,  \* the timestamps that are non-nil on the instance Read fetched
    errLocations, \* locations listed in Create's "Valid location(s)" error
    failedAt,    \* the step whose error the callback returned
    target,      \* rsInst.Target: the CatalogCRN of the chosen deployment
    cfgLocation, \* d.Get("location"), while Create filters by it
    listed,      \* what ListDeployments answered, until Create is past it
    parameters,  \* d.Get("parameters"), once the callback has read it
    serviceEndpoints, \* d.Get("service_endpoints"), once read
    remoteParams, \* instance.Parameters of the instance Update fetched
    request,     \* rsInst / resourceInstanceUpdate: the options of the request
    keys,        \* the instance ids the callback's get, update and delete
                 \* calls were made with
    arg,         \* argument of the function under test
    result       \* its result

vars == <<id, op, pc, ret, existsRet, idAtStart, reqResp, createdId, fetched,
          pollResult, pollInst, changed, tagsDone, formatted, timestamps, errLocations,
          failedAt, target, cfgLocation, listed, parameters, serviceEndpoints,
          remoteParams, request, keys, arg, result>>

\* the variables of the function harness
fnVars == <<arg, result>>
\* the variables of the callbacks
progVars == <<id, op, pc, ret, existsRet, idAtStart, reqResp, createdId, fetched,
              pollResult, pollInst, changed, tagsDone, formatted, timestamps, errLocations,
              failedAt, target, cfgLocation, listed, parameters,
              serviceEndpoints, remoteParams, request, keys>>
\* what the callback has read of the configuration, and its request
cfgVars == <<parameters, serviceEndpoints, remoteParams, request>>

-----------------------------------------------------------------------------
(* Program constants                                                        *)

rsInstanceSuccessStatus == "active"
rsInstanceProgressStatus == "in progress"
rsInstanceProvisioningStatus == "provisioning"
rsInstanceInactiveStatus == "inactive"
rsInstanceFailStatus == "failed"
rsInstanceRemovedStatus == "removed"
rsInstanceReclamation == "pending_reclamation"

(* Bounds of the model                                                      *)

\* d.Timeout(...) / MinTimeout: the fetches a poll makes before its deadline
MaxFetches == 3
\* length of the deployment list the catalog returns
MaxDeployments == 2

\* identifiers the remote service assigns
IDs == {"i1", "i2"}
Locations == {"us-south", "eu-de"}
Fields == {"name", "plan", "service_endpoints", "parameters", "tags"}
Timestamps == {"restored_at", "scheduled_reclaim_at", "deleted_at",
               "update_at", "created_at"}

\* The state is a free-form string of the remote service: the seven the
\* code names and one it does not.
OtherState == "soft_removed"
States == {rsInstanceSuccessStatus, rsInstanceProgressStatus,
           rsInstanceProvisioningStatus, rsInstanceInactiveStatus,
           rsInstanceFailStatus, rsInstanceRemovedStatus,
           rsInstanceReclamation, OtherState}

-----------------------------------------------------------------------------
(* Responses of the remote service.  status 0 stands for resp == nil.       *)

OkResp(s, i) == [err |-> FALSE, status |-> 200, state |-> s, rid |-> i]
ErrResp(c) == [err |-> TRUE, status |-> c, state |-> "", rid |-> ""]

\* GetResourceInstance answered for the poll of the instance idv
GetResponses(idv) ==
    {OkResp(s, idv) : s \in States} \cup {ErrResp(c) : c \in {0, 404, 500}}

\* GetResourceInstance answered to Exists: the returned id is the remote's
ExistsResponses ==
    {OkResp(s, i) : s \in States, i \in IDs} \cup {ErrResp(c) : c \in {0, 404, 500}}

DeleteResponses == {OkResp("", "")} \cup {ErrResp(c) : c \in {0, 404, 410, 500}}

-----------------------------------------------------------------------------
(* Strings.  TLC has no access to the characters of a string, so the       *)
(* strings the code inspects are spelled out.                               *)

Chars(s) ==
    CASE s = "active" ->
           <<"a", "c", "t", "i", "v", "e">>
      [] s = "in progress" ->
           <<"i", "n", " ", "p", "r", "o", "g", "r", "e", "s", "s">>
      [] s = "provisioning" ->
           <<"p", "r", "o", "v", "i", "s", "i", "o", "n", "i", "n", "g">>
      [] s = "inactive" ->
           <<"i", "n", "a", "c", "t", "i", "v", "e">>
      [] s = "failed" ->
           <<"f", "a", "i", "l", "e", "d">>
      [] s = "removed" ->
           <<"r", "e", "m", "o", "v", "e", "d">>
      [] s = "pending_reclamation" ->
           <<"p", "e", "n", "d", "i", "n", "g", "_", "r", "e", "c", "l", "a", "m", "a", "t", "i", "o", "n">>
      [] s = "soft_removed" ->
           <<"s", "o", "f", "t", "_", "r", "e", "m", "o", "v", "e", "d">>
      [] s = "true" ->
           <<"t", "r", "u", "e">>
      [] s = "false" ->
           <<"f", "a", "l", "s", "e">>
      [] s = "public" ->
           <<"p", "u", "b", "l", "i", "c">>
      [] s = "private" ->
           <<"p", "r", "i", "v", "a", "t", "e">>
      [] s = "" ->
           <<>>

\* strings.Contains(s, substr)
Contains(s, substr) ==
    LET a == Chars(s)
        b == Chars(substr)
    IN  \E i \in 1..(Len(a) + 1) :
            /\ i + Len(b) - 1 <= Len(a)
            /\ SubSeq(a, i, i + Len(b) - 1) = b

-----------------------------------------------------------------------------
(* Parameter coercion: the loop body of Create (and, again, of Update)      *)

\* strings.HasPrefix(s, c) and strings.HasSuffix(s, c) for a one-character c
HasPrefix(s, c) == Len(s) >= 1 /\ s[1] = c
HasSuffix(s, c) == Len(s) >= 1 /\ s[Len(s)] = c

\* strings.TrimLeft(s, c): s without all its leading characters c
RECURSIVE TrimLeft(_, _)
TrimLeft(s, c) ==
    IF Len(s) >= 1 /\ s[1] = c THEN TrimLeft(Tail(s), c) ELSE s

\* strings.TrimRight(s, c): s without all its trailing characters c
RECURSIVE TrimRight(_, _)
TrimRight(s, c) ==
    IF Len(s) >= 1 /\ s[Len(s)] = c
    THEN TrimRight(SubSeq(s, 1, Len(s) - 1), c)
    ELSE s

\* strings.Trim(s, c)
Trim(s, c) == TrimRight(TrimLeft(s, c), c)

\* strings.Split(s, sep) for a one-character sep: the pieces between the
\* separators, a single empty piece for the empty string
RECURSIVE SplitFrom(_, _, _, _)
SplitFrom(s, sep, i, piece) ==
    IF i > Len(s) THEN <<piece>>
    ELSE IF s[i] = sep
         THEN <<piece>> \o SplitFrom(s, sep, i + 1, <<>>)
         ELSE SplitFrom(s, sep, i + 1, Append(piece, s[i]))

Split(s, sep) == SplitFrom(s, sep, 1, <<>>)

\* The values of the parameters payload: a bool, a []string or a string
BoolValue(b) == [kind |-> "bool", b |-> b, s |-> <<>>, l |-> <<>>]
ListValue(l) == [kind |-> "list", b |-> FALSE, s |-> <<>>, l |-> l]
StringValue(s) == [kind |-> "string", b |-> FALSE, s |-> s, l |-> <<>>]

\* What the loop stores in params[k] for the configured value v
coerce(v) ==
    IF v = Chars("true") \/ v = Chars("false")
    THEN BoolValue(v = Chars("true"))
    ELSE IF HasPrefix(v, "[") /\ HasSuffix(v, "]")
    THEN LET trimLeft == TrimLeft(v, "[")
             trimRight == TrimRight(trimLeft, "]")
             array == Split(trimRight, ",")
         IN  ListValue([i \in 1..Len(array) |-> Trim(array[i], "\"")])
    ELSE StringValue(v)

-----------------------------------------------------------------------------
(* The three polls: resource.StateChangeConf of waitForResourceInstance*    *)

\* Create waiting on the pending states of Update
CreatePendingAsUpdate == {rsInstanceProgressStatus, rsInstanceInactiveStatus}

CreatePending == {rsInstanceProgressStatus, rsInstanceInactiveStatus,
                  rsInstanceProvisioningStatus}
\* Create waiting for the target states of Delete
CreateTargetAsDelete == {rsInstanceRemovedStatus, rsInstanceReclamation}

CreateTarget == {rsInstanceSuccessStatus}

\* Update waiting on the pending states of Create
UpdatePendingAsCreate == {rsInstanceProgressStatus, rsInstanceInactiveStatus,
                          rsInstanceProvisioningStatus}

UpdatePending == {rsInstanceProgressStatus, rsInstanceInactiveStatus}
UpdateTarget == {rsInstanceSuccessStatus}

DeletePending == {rsInstanceProgressStatus, rsInstanceInactiveStatus,
                  rsInstanceSuccessStatus}
DeleteTarget == {rsInstanceRemovedStatus, rsInstanceReclamation}

Pending(o) ==
    CASE o = "create" -> CreatePending
      [] o = "update" -> UpdatePending
      [] o = "delete" -> DeletePending

Target(o) ==
    CASE o = "create" -> CreateTarget
      [] o = "update" -> UpdateTarget
      [] o = "delete" -> DeleteTarget

\* Timeout: d.Timeout(schema.TimeoutCreate | TimeoutUpdate | TimeoutDelete),
\* counted in fetches: Delay and MinTimeout are both 10 s, so the fetches
\* are 10 s apart and the deadline admits Timeout / 10 s of them.
Timeout(o) == MaxFetches

\* What a Refresh closure returns: (result, state, error).  res tells how
\* the interface{} result compares with nil: "nil" is the literal nil,
\* "instance" a fetched instance, "nil_pointer" the *rc.ResourceInstance of
\* a failed GetResourceInstance, which as an interface{} is not nil.
Refreshed(res, state, err) == [res |-> res, state |-> state, err |-> err]

\* Refresh of waitForResourceInstanceCreate
CreateRefresh(r) ==
    IF r.err
    THEN Refreshed("nil", "", TRUE)
    ELSE IF r.state = rsInstanceFailStatus
         THEN Refreshed("instance", r.state, TRUE)
         ELSE Refreshed("instance", r.state, FALSE)

\* Update's Refresh with the 404 branch of Delete's
UpdateRefreshAsDelete(r) ==
    IF r.err
    THEN IF r.status # 0 /\ r.status = 404
         THEN Refreshed("nil_pointer", rsInstanceSuccessStatus, FALSE)
         ELSE Refreshed("nil", "", TRUE)
    ELSE IF r.state = rsInstanceFailStatus
         THEN Refreshed("instance", r.state, TRUE)
         ELSE Refreshed("instance", r.state, FALSE)

\* Refresh of waitForResourceInstanceUpdate
UpdateRefresh(r) ==
    IF r.err
    THEN Refreshed("nil", "", TRUE)
    ELSE IF r.state = rsInstanceFailStatus
         THEN Refreshed("instance", r.state, TRUE)
         ELSE Refreshed("instance", r.state, FALSE)

\* Delete's Refresh answering a 404 with the removed state
DeleteRefreshGoneIsRemoved(r) ==
    IF r.err
    THEN IF r.status # 0 /\ r.status = 404
         THEN Refreshed("nil_pointer", rsInstanceRemovedStatus, FALSE)
         ELSE Refreshed("nil", "", TRUE)
    ELSE IF r.state = rsInstanceFailStatus
         THEN Refreshed("instance", r.state, TRUE)
         ELSE Refreshed("instance", r.state, FALSE)

\* Delete's Refresh without the rsInstanceFailStatus check
DeleteRefreshNoFailCheck(r) ==
    IF r.err
    THEN IF r.status # 0 /\ r.status = 404
         THEN Refreshed("nil_pointer", rsInstanceSuccessStatus, FALSE)
         ELSE Refreshed("nil", "", TRUE)
    ELSE Refreshed("instance", r.state, FALSE)

\* Refresh of waitForResourceInstanceDelete
DeleteRefresh(r) ==
    IF r.err
    THEN IF r.status # 0 /\ r.status = 404
         THEN Refreshed("nil_pointer", rsInstanceSuccessStatus, FALSE)
         ELSE Refreshed("nil", "", TRUE)
    ELSE IF r.state = rsInstanceFailStatus
         THEN Refreshed("instance", r.state, TRUE)
         ELSE Refreshed("instance", r.state, FALSE)

Refresh(o, r) ==
    CASE o = "create" -> CreateRefresh(r)
      [] o = "update" -> UpdateRefresh(r)
      [] o = "delete" -> DeleteRefresh(r)

\* One round of StateChangeConf.WaitForState on what Refresh returned: an
\* error ends the wait, a target state ends it with success, a pending
\* state (or a nil result, counted against NotFoundChecks = 20) goes on,
\* any other state is an UnexpectedStateError.
WaitForStateStep(o, rr) ==
    IF rr.err THEN "refresh_error"
    ELSE IF rr.res = "nil" THEN "pending"
    ELSE IF rr.state \in Target(o) THEN "success"
    ELSE IF rr.state \in Pending(o) THEN "pending"
    ELSE "unexpected_state"

-----------------------------------------------------------------------------
(* filterDeployments                                                        *)

\* models.ServiceDeployment: CatalogCRN, Metadata.RCCompatible,
\* Metadata.Deployment.Location
Deployment(c, b, l) == [crn |-> c, compatible |-> b, location |-> l]
Deployments ==
    {Deployment(c, b, l) : c \in {"crn-a", "crn-b"}, b \in BOOLEAN, l \in Locations}

RECURSIVE SeqsUpTo(_, _)
SeqsUpTo(S, n) ==
    IF n = 0 THEN {<<>>}
    ELSE LET shorter == SeqsUpTo(S, n - 1)
         IN  shorter \cup {Append(s, x) : s \in shorter, x \in S}

DeploymentLists == SeqsUpTo(Deployments, MaxDeployments)

\* The loop of filterDeployments from its i-th element on, with the two
\* results gathered so far.
RECURSIVE filterLoop(_, _, _, _, _)
filterLoop(deployments, location, i, supportedDeployments, supportedLocations) ==
    IF i > Len(deployments)
    THEN [deployments |-> supportedDeployments, locations |-> supportedLocations]
    ELSE LET d == deployments[i]
         IN  IF d.compatible
             THEN filterLoop(deployments, location, i + 1,
                             IF d.location = location
                             THEN Append(supportedDeployments, d)
                             ELSE supportedDeployments,
                             supportedLocations \cup {d.location})
             ELSE filterLoop(deployments, location, i + 1,
                             supportedDeployments, supportedLocations)

\* filterDeployments adding a location only for a matching deployment
filterDeploymentsMatchedLocations(deployments, location) ==
    LET f == filterLoop(deployments, location, 1, <<>>, {})
    IN  [deployments |-> f.deployments,
         locations |-> {f.deployments[i].location : i \in DOMAIN f.deployments}]

\* filterDeployments adding the location of every deployment, compatible
\* or not
filterDeploymentsAllLocations(deployments, location) ==
    LET f == filterLoop(deployments, location, 1, <<>>, {})
    IN  [deployments |-> f.deployments,
         locations |-> {deployments[i].location : i \in DOMAIN deployments}]

filterDeployments(deployments, location) ==
    filterLoop(deployments, location, 1, <<>>, {})

-----------------------------------------------------------------------------
(* The configuration and the parameters payload                             *)

NoResp == [err |-> FALSE, status |-> -1, state |-> "", rid |-> ""]

\* map[string]interface{}{}
NoParams == [k \in {} |-> <<>>]

\* The fields of rc.CreateResourceInstanceOptions and
\* rc.UpdateResourceInstanceOptions: name, plan and group tell whether the
\* pointer is set, hasParams whether Parameters is.
NoRequest == [id |-> "", name |-> FALSE, plan |-> FALSE, target |-> "",
              group |-> FALSE, hasParams |-> FALSE, params |-> NoParams]

ServiceEndpointsKey == "service-endpoints"
ParamKeys == {ServiceEndpointsKey, "param"}
\* configured values: a boolean, a list and a plain string
ParamValues == {Chars("true"), <<"[", "a", ",", "a", "]">>, Chars("private")}
ParameterMaps == UNION {[K -> ParamValues] : K \in SUBSET ParamKeys}
\* the values of service_endpoints the schema admits; <<>> is the unset field
Endpoints == {Chars("public"), Chars("private")}
\* instance.Parameters of a fetched instance, as far as Update reads it
RemoteParams ==
    {NoParams} \cup {[k \in {ServiceEndpointsKey} |-> StringValue(e)] : e \in Endpoints}

\* params[k] = v
Put(params, k, v) ==
    [x \in DOMAIN params \cup {k} |-> IF x = k THEN v ELSE params[x]]

\* the loop over d.Get("parameters"): params[k] = coerce(v) for each entry
CoerceInto(params, temp) ==
    [k \in DOMAIN params \cup DOMAIN temp |->
        IF k \in DOMAIN temp THEN coerce(temp[k]) ELSE params[k]]

\* params of Create: service_endpoints first, then the parameters loop
CreateParams(temp, endpoint) ==
    LET params == IF endpoint # <<>>
                  THEN Put(NoParams, ServiceEndpointsKey, StringValue(endpoint))
                  ELSE NoParams
    IN  CoerceInto(params, temp)

\* params of Update with the service-endpoints entry set ahead of the loop
\* over the configured parameters, as Create sets it
UpdateParamsOfLoopLast(has, temp, endpoint, fetchedParams) ==
    LET params == IF "service_endpoints" \in has
                  THEN Put(NoParams, ServiceEndpointsKey, StringValue(endpoint))
                  ELSE NoParams
    IN  IF "parameters" \in has
        THEN LET entry == IF endpoint # <<>>
                          THEN Put(params, ServiceEndpointsKey, StringValue(endpoint))
                          ELSE IF ServiceEndpointsKey \in DOMAIN fetchedParams
                          THEN Put(params, ServiceEndpointsKey,
                                   fetchedParams[ServiceEndpointsKey])
                          ELSE params
             IN  CoerceInto(entry, temp)
        ELSE params

\* params of Update without the service-endpoints entry of the fetched
\* instance
UpdateParamsOfNoCarry(has, temp, endpoint, fetchedParams) ==
    LET params == IF "service_endpoints" \in has
                  THEN Put(NoParams, ServiceEndpointsKey, StringValue(endpoint))
                  ELSE NoParams
    IN  IF "parameters" \in has
        THEN LET looped == CoerceInto(params, temp)
             IN  IF endpoint # <<>>
                 THEN Put(looped, ServiceEndpointsKey, StringValue(endpoint))
                 ELSE looped
        ELSE params

\* params of Update for the changed fields has, the configured parameters
\* temp, the configured service_endpoints and the Parameters of the fetched
\* instance
UpdateParamsOf(has, temp, endpoint, fetchedParams) ==
    LET params == IF "service_endpoints" \in has
                  THEN Put(NoParams, ServiceEndpointsKey, StringValue(endpoint))
                  ELSE NoParams
    IN  IF "parameters" \in has
        THEN LET looped == CoerceInto(params, temp)
             IN  IF endpoint # <<>>
                 THEN Put(looped, ServiceEndpointsKey, StringValue(endpoint))
                 ELSE IF ServiceEndpointsKey \in DOMAIN fetchedParams
                 THEN Put(looped, ServiceEndpointsKey,
                          fetchedParams[ServiceEndpointsKey])
                 ELSE looped
        ELSE params

-----------------------------------------------------------------------------
(* The callbacks                                                            *)

\* no callback has run
Fresh ==
    /\ id = ""
    /\ op = "none"
    /\ pc = "idle"
    /\ ret = "none"
    /\ existsRet = "none"
    /\ idAtStart = ""
    /\ reqResp = NoResp
    /\ createdId = ""
    /\ fetched = <<>>
    /\ pollResult = "none"
    /\ pollInst = 0
    /\ changed = {}
    /\ tagsDone = "none"
    /\ formatted = {}
    /\ timestamps = {}
    /\ errLocations = {}
    /\ failedAt = ""
    /\ target = ""
    /\ cfgLocation = ""
    /\ listed = <<>>
    /\ parameters = NoParams
    /\ serviceEndpoints = <<>>
    /\ remoteParams = NoParams
    /\ request = NoRequest
    /\ keys = {}

Init ==
    /\ Fresh
    /\ arg = <<>>
    /\ result = <<>>

\* The schema engine enters callback o on a fresh *schema.ResourceData that
\* carries the stored identifier; nothing else survives the last callback.
Enter(o) ==
    /\ pc = "idle"
    /\ op' = o
    /\ existsRet' = "none"
    /\ idAtStart' = id
    /\ reqResp' = NoResp
    /\ createdId' = ""
    /\ fetched' = <<>>
    /\ pollResult' = "none"
    /\ pollInst' = 0
    /\ tagsDone' = "none"
    /\ formatted' = {}
    /\ timestamps' = {}
    /\ errLocations' = {}
    /\ target' = ""
    /\ cfgLocation' = ""
    /\ listed' = <<>>
    /\ parameters' = NoParams
    /\ serviceEndpoints' = <<>>
    /\ remoteParams' = NoParams
    /\ keys' = {}
    /\ UNCHANGED fnVars

\* return of an error from step s of the callback
Fail(s) == pc' = "idle" /\ ret' = "err" /\ failedAt' = s
\* the callback goes on at step s
Goto(s) == pc' = s /\ ret' = "none" /\ failedAt' = ""

\* Create submitting the request without resolving the resource group
CreateAfterSkipGroup(s) ==
    CASE s = "c_clients" -> "c_offering"
      [] s = "c_offering" -> "c_plan"
      [] s = "c_plan" -> "c_deployments"
      [] s = "c_deployments" -> "c_request"
      [] s = "c_group" -> "c_request"

\* The step of Create that follows step s when s has succeeded: the
\* clients, FindByName and RCProvisionable, GetServicePlanID,
\* ListDeployments and filterDeployments, the resource group,
\* CreateResourceInstance
CreateAfter(s) ==
    CASE s = "c_clients" -> "c_offering"
      [] s = "c_offering" -> "c_plan"
      [] s = "c_plan" -> "c_deployments"
      [] s = "c_deployments" -> "c_group"
      [] s = "c_group" -> "c_request"

\* resourceIBMResourceInstanceCreate up to the two API clients
CreateBegin ==
    /\ id = ""
    /\ Enter("create")
    /\ changed' = {}
    /\ request' = NoRequest
    /\ \E clients \in {"ok", "rc_client_err", "catalog_client_err"} :
           IF clients = "ok" THEN Goto(CreateAfter("c_clients")) ELSE Fail(clients)
    /\ UNCHANGED id

\* FindByName and the RCProvisionable check
CreateOffering ==
    /\ pc = "c_offering"
    /\ \E answer \in {"ok", "find_err", "no_rc_metadata", "not_provisionable"} :
           IF answer = "ok" THEN Goto(CreateAfter("c_offering")) ELSE Fail(answer)
    /\ UNCHANGED <<id, op, existsRet, idAtStart, reqResp, createdId, fetched,
                   pollResult, pollInst, changed, tagsDone, formatted, timestamps,
                   errLocations, target>>
    /\ UNCHANGED <<cfgLocation, listed, keys>>
    /\ UNCHANGED <<cfgVars, fnVars>>

\* GetServicePlanID
CreatePlan ==
    /\ pc = "c_plan"
    /\ \E answer \in {"ok", "plan_err"} :
           IF answer = "ok" THEN Goto(CreateAfter("c_plan")) ELSE Fail(answer)
    /\ UNCHANGED <<id, op, existsRet, idAtStart, reqResp, createdId, fetched,
                   pollResult, pollInst, changed, tagsDone, formatted, timestamps,
                   errLocations, target>>
    /\ UNCHANGED <<cfgLocation, listed, keys>>
    /\ UNCHANGED <<cfgVars, fnVars>>

\* ListDeployments failed
CreateDeploymentsErr ==
    /\ pc = "c_deployments"
    /\ Fail("deployments_err")
    /\ UNCHANGED <<id, op, existsRet, idAtStart, reqResp, createdId, fetched,
                   pollResult, pollInst, changed, tagsDone, formatted, timestamps,
                   errLocations, target>>
    /\ UNCHANGED <<cfgLocation, listed, keys>>
    /\ UNCHANGED <<cfgVars, fnVars>>

\* ListDeployments answered: the two length checks around filterDeployments
CreateDeployments ==
    /\ pc = "c_deployments"
    /\ \E deployments \in DeploymentLists, loc \in Locations :
           LET f == filterDeployments(deployments, loc)
           IN  /\ cfgLocation' = loc
               /\ listed' = deployments
               /\ IF Len(deployments) = 0
                  THEN /\ Fail("no_deployment")
                       /\ UNCHANGED <<errLocations, target>>
                  ELSE IF Len(f.deployments) = 0
                  THEN /\ Fail("no_deployment_at_location")
                       /\ errLocations' = f.locations
                       /\ UNCHANGED target
                  ELSE /\ Goto(CreateAfter("c_deployments"))
                       /\ target' = f.deployments[1].crn
                       /\ UNCHANGED errLocations
    /\ UNCHANGED <<id, op, existsRet, idAtStart, reqResp, createdId, fetched,
                   pollResult, pollInst, changed, tagsDone, formatted, timestamps, keys>>
    /\ UNCHANGED <<cfgVars, fnVars>>

\* resource_group_id, or defaultResourceGroup; the deployment list and the
\* location are not read again
CreateGroup ==
    /\ pc = "c_group"
    /\ \E answer \in {"configured", "default", "default_group_err"} :
           IF answer = "default_group_err"
           THEN Fail(answer)
           ELSE Goto(CreateAfter("c_group"))
    /\ UNCHANGED <<id, op, existsRet, idAtStart, reqResp, createdId, fetched,
                   pollResult, pollInst, changed, tagsDone, formatted, timestamps,
                   errLocations, target>>
    /\ cfgLocation' = ""
    /\ listed' = <<>>
    /\ UNCHANGED <<keys, cfgVars, fnVars>>

\* Create's request without d.SetId ahead of the wait
CreateRequestNoSetId ==
    /\ pc = "c_request"
    /\ \E r \in {OkResp(rsInstanceProvisioningStatus, i) : i \in IDs}
                \cup {ErrResp(c) : c \in {0, 500}} :
           /\ reqResp' = r
           /\ IF r.err
              THEN Fail("create_err") /\ UNCHANGED createdId
              ELSE Goto("wait") /\ createdId' = r.rid
    /\ UNCHANGED <<id, op, existsRet, idAtStart, fetched, pollResult, pollInst,
                   changed, tagsDone, formatted, timestamps, errLocations, target>>
    /\ \E temp \in ParameterMaps, endpoint \in {<<>>} \cup Endpoints :
           /\ parameters' = temp
           /\ serviceEndpoints' = endpoint
           /\ request' = [id |-> "", name |-> TRUE, plan |-> TRUE,
                          target |-> target, group |-> TRUE, hasParams |-> TRUE,
                          params |-> CreateParams(temp, endpoint)]
    /\ UNCHANGED <<cfgLocation, listed, remoteParams, keys, fnVars>>

\* CreateResourceInstance, and d.SetId(*instance.ID) when it succeeded
CreateRequest ==
    /\ pc = "c_request"
    /\ \E r \in {OkResp(rsInstanceProvisioningStatus, i) : i \in IDs}
                \cup {ErrResp(c) : c \in {0, 500}} :
           /\ reqResp' = r
           /\ IF r.err
              THEN Fail("create_err") /\ UNCHANGED <<id, createdId>>
              ELSE Goto("wait") /\ id' = r.rid /\ createdId' = r.rid
    /\ UNCHANGED <<op, existsRet, idAtStart, fetched, pollResult, pollInst,
                   changed, tagsDone, formatted, timestamps, errLocations, target>>
    /\ \E temp \in ParameterMaps, endpoint \in {<<>>} \cup Endpoints :
           /\ parameters' = temp
           /\ serviceEndpoints' = endpoint
           /\ request' = [id |-> "", name |-> TRUE, plan |-> TRUE,
                          target |-> target, group |-> TRUE, hasParams |-> TRUE,
                          params |-> CreateParams(temp, endpoint)]
    /\ UNCHANGED <<cfgLocation, listed, remoteParams, keys, fnVars>>

\* waitForResourceInstanceCreate | Update | Delete up to WaitForState: the
\* API client, and the StateChangeConf of the callback that runs
WaitBegin ==
    /\ pc = "wait"
    /\ \E client \in {"ok", "rc_client_err"} :
           IF client = "ok"
           THEN pc' = "poll" /\ UNCHANGED pollResult
           ELSE pc' = "polled" /\ pollResult' = client
    /\ UNCHANGED <<id, op, ret, existsRet, idAtStart, reqResp, createdId,
                   fetched, pollInst, changed, tagsDone, formatted, timestamps,
                   errLocations, failedAt, target>>
    \* the locals of the callback are dead from here on
    /\ parameters' = NoParams
    /\ serviceEndpoints' = <<>>
    /\ remoteParams' = NoParams
    /\ request' = NoRequest
    /\ UNCHANGED <<cfgLocation, listed, keys, fnVars>>

\* One round of WaitForState before the deadline: Refresh fetches the
\* instance by the stored identifier and the round is decided.
PollFetch ==
    /\ pc = "poll"
    /\ Len(fetched) < Timeout(op)
    /\ \E r \in GetResponses(id) :
           LET rr == Refresh(op, r)
               round == WaitForStateStep(op, rr)
           IN  /\ fetched' = Append(fetched, r)
               /\ IF round = "pending"
                  THEN UNCHANGED <<pc, pollResult, pollInst>>
                  ELSE /\ pc' = "polled"
                       /\ pollResult' = round
                       /\ pollInst' = IF rr.res = "instance"
                                      THEN Len(fetched) + 1 ELSE 0
    /\ UNCHANGED <<id, op, ret, existsRet, idAtStart, reqResp, createdId,
                   changed, tagsDone, formatted, timestamps, errLocations, failedAt,
                   target>>
    /\ keys' = keys \cup {id}
    /\ UNCHANGED <<cfgLocation, listed, fnVars>>
    /\ UNCHANGED cfgVars

\* The deadline of WaitForState passes: a TimeoutError and no instance
PollTimeout ==
    /\ pc = "poll"
    /\ Len(fetched) >= Timeout(op)
    /\ pc' = "polled"
    /\ pollResult' = "timeout"
    /\ pollInst' = 0
    /\ UNCHANGED <<id, op, ret, existsRet, idAtStart, reqResp, createdId,
                   fetched, changed, tagsDone, formatted, timestamps, errLocations,
                   failedAt, target>>
    /\ UNCHANGED <<cfgLocation, listed, keys>>
    /\ UNCHANGED <<cfgVars, fnVars>>

\* a tag error ending the callback
TagsThenFatal(s, failed) == IF failed THEN Fail("tags_err") ELSE Goto(s)

\* After UpdateTagsUsingCRN the callback goes on at step s: its error is
\* passed to log.Printf and to nothing else
TagsThen(s, failed) == Goto(s)

\* Create after waitForResourceInstanceCreate: its error is returned, else
\* the tags are reconciled when configured (or IC_ENV_TAGS is set); a tag
\* error is only logged
CreateAfterPoll ==
    /\ pc = "polled"
    /\ op = "create"
    /\ IF pollResult # "success"
       THEN Fail("wait_err") /\ UNCHANGED tagsDone
       ELSE \E t \in {"skipped", "ok", "failed"} :
                /\ tagsDone' = t
                /\ TagsThen("read", t = "failed")
    /\ UNCHANGED <<id, op, existsRet, idAtStart, reqResp, createdId, fetched,
                   pollResult, pollInst, changed, formatted, timestamps, errLocations,
                   target>>
    /\ UNCHANGED <<cfgLocation, listed, keys>>
    /\ UNCHANGED <<cfgVars, fnVars>>

\* The calls of resourceIBMResourceInstanceRead that can make it return an
\* error, in the order it makes them
ReadErrors == {"rc_client_err", "get_err", "catalog_client_err",
               "service_name_err", "base_controller_err", "plan_name_err"}

\* The timestamp fields Read sets from an instance whose non-nil timestamps
\* are those of present; deleted_at is guarded by instance.ScheduledReclaimAt.
ReadFormats(present) ==
    (present \ {"deleted_at"})
        \cup (IF "scheduled_reclaim_at" \in present THEN {"deleted_at"} ELSE {})

\* instance.DeletedAt.String() on a nil DeletedAt
ReadPanics(present) ==
    "scheduled_reclaim_at" \in present /\ "deleted_at" \notin present

\* resourceIBMResourceInstanceRead, called by the engine or at the end of
\* Create and Update
\* (an error of GetTagsUsingCRN is only logged).  The nil dereference ends
\* the callback without a return value: ret = "panic".
ReadBody ==
    /\ pc = "read"
    /\ \E answer \in ReadErrors \cup {"ok"}, present \in SUBSET Timestamps :
           IF answer # "ok"
           THEN /\ present = {}
                /\ Fail(answer)
                /\ keys' = IF answer = "rc_client_err" THEN keys ELSE keys \cup {id}
                /\ UNCHANGED <<formatted, timestamps>>
           ELSE IF ReadPanics(present)
           THEN /\ pc' = "idle" /\ ret' = "panic" /\ failedAt' = ""
                /\ formatted' = present \cap {"restored_at", "scheduled_reclaim_at"}
                /\ timestamps' = present
                /\ keys' = keys \cup {id}
           ELSE /\ pc' = "idle" /\ ret' = "ok" /\ failedAt' = ""
                /\ formatted' = ReadFormats(present)
                /\ timestamps' = present
                /\ keys' = keys \cup {id}
    /\ UNCHANGED <<id, op, existsRet, idAtStart, reqResp, createdId, fetched,
                   pollResult, pollInst, changed, tagsDone, errLocations,
                   target>>
    /\ UNCHANGED <<cfgLocation, listed, fnVars>>
    /\ UNCHANGED cfgVars

ReadBegin ==
    /\ id # ""
    /\ Enter("read")
    /\ Goto("read")
    /\ changed' = {}
    /\ request' = NoRequest
    /\ UNCHANGED id

\* return of nil
Succeed == pc' = "idle" /\ ret' = "ok" /\ failedAt' = ""

\* Update calling UpdateResourceInstance ahead of UpdateTagsUsingCRN
UpdateAfterRequestFirst(s) ==
    CASE s = "u_client" -> "u_plan"
      [] s = "u_plan" -> "u_params"
      [] s = "u_params" -> "u_get"
      [] s = "u_get" -> "u_request"
      [] s = "u_request" -> "u_tags"
      [] s = "u_tags" -> "wait"

\* The step of Update that follows step s when s has succeeded: the
\* client, the plan, the parameters, GetResourceInstance, the tags,
\* UpdateResourceInstance, waitForResourceInstanceUpdate
UpdateAfter(s) ==
    CASE s = "u_client" -> "u_plan"
      [] s = "u_plan" -> "u_params"
      [] s = "u_params" -> "u_get"
      [] s = "u_get" -> "u_tags"
      [] s = "u_tags" -> "u_request"
      [] s = "u_request" -> "wait"

\* resourceIBMResourceInstanceUpdate up to the API client; d.HasChange is
\* fixed by the plan the engine applies
UpdateBegin ==
    /\ id # ""
    /\ Enter("update")
    /\ \E has \in (SUBSET Fields) \ {{}}, client \in {"ok", "rc_client_err"} :
           /\ changed' = has
           /\ IF client = "ok"
              THEN /\ Goto(UpdateAfter("u_client"))
                   /\ request' = [NoRequest EXCEPT !.id = id,
                                                   !.name = ("name" \in has)]
              ELSE Fail(client) /\ request' = NoRequest
    /\ UNCHANGED id

\* d.HasChange("plan"): the catalog client, FindByName, GetServicePlanID
UpdatePlan ==
    /\ pc = "u_plan"
    /\ \E answer \in (IF "plan" \in changed
                      THEN {"ok", "catalog_client_err", "find_err", "plan_err"}
                      ELSE {"ok"}) :
           IF answer = "ok"
           THEN /\ Goto(UpdateAfter("u_plan"))
                /\ request' = [request EXCEPT !.plan = ("plan" \in changed)]
           ELSE Fail(answer) /\ UNCHANGED request
    /\ UNCHANGED <<id, op, existsRet, idAtStart, reqResp, createdId, fetched,
                   pollResult, pollInst, changed, tagsDone, formatted, timestamps,
                   errLocations, target>>
    /\ UNCHANGED <<cfgLocation, listed, keys, fnVars>>
    /\ UNCHANGED <<parameters, serviceEndpoints, remoteParams>>

\* Update setting resourceInstanceUpdate.Parameters only when parameters
\* changed
SetsParametersOnParametersChange(has) == "parameters" \in has

\* d.HasChange("service_endpoints") || d.HasChange("parameters")
SetsParameters(has) == has \cap {"service_endpoints", "parameters"} # {}

\* The parameters of the update: service_endpoints when it changed, and under
\* d.HasChange("parameters") GetResourceInstance, the loop over the
\* configured parameters and the service-endpoints entry
UpdateParams ==
    /\ pc = "u_params"
    /\ \E answer \in (IF "parameters" \in changed
                      THEN {"ok", "params_get_err"}
                      ELSE {"ok"}),
          temp \in ParameterMaps,
          endpoint \in (IF "service_endpoints" \in changed
                        THEN Endpoints
                        ELSE {<<>>} \cup Endpoints),
          fetchedParams \in RemoteParams :
           /\ parameters' = temp
           /\ serviceEndpoints' = endpoint
           /\ keys' = IF "parameters" \in changed THEN keys \cup {id} ELSE keys
           /\ IF answer = "ok"
              THEN /\ Goto(UpdateAfter("u_params"))
                   /\ "parameters" \notin changed => fetchedParams = NoParams
                   /\ remoteParams' = fetchedParams
                   /\ request' =
                         IF SetsParameters(changed)
                         THEN [request EXCEPT
                                 !.hasParams = TRUE,
                                 !.params = UpdateParamsOf(changed, temp, endpoint,
                                                           fetchedParams)]
                         ELSE request
              ELSE /\ Fail(answer)
                   /\ fetchedParams = NoParams
                   /\ UNCHANGED <<remoteParams, request>>
    /\ UNCHANGED <<id, op, existsRet, idAtStart, reqResp, createdId, fetched,
                   pollResult, pollInst, changed, tagsDone, formatted, timestamps,
                   errLocations, target>>
    /\ UNCHANGED <<cfgLocation, listed, fnVars>>

\* GetResourceInstance ahead of the tags
UpdateGet ==
    /\ pc = "u_get"
    /\ \E answer \in {"ok", "get_err"} :
           IF answer = "ok" THEN Goto(UpdateAfter("u_get")) ELSE Fail(answer)
    /\ UNCHANGED <<id, op, existsRet, idAtStart, reqResp, createdId, fetched,
                   pollResult, pollInst, changed, tagsDone, formatted, timestamps,
                   errLocations, target>>
    /\ keys' = keys \cup {id}
    /\ UNCHANGED <<cfgLocation, listed, fnVars>>
    /\ UNCHANGED cfgVars

\* d.HasChange("tags"): UpdateTagsUsingCRN, its error only logged
UpdateTags ==
    /\ pc = "u_tags"
    /\ \E t \in (IF "tags" \in changed THEN {"ok", "failed"} ELSE {"skipped"}) :
           /\ tagsDone' = t
           /\ TagsThen(UpdateAfter("u_tags"), t = "failed")
    /\ UNCHANGED <<id, op, existsRet, idAtStart, reqResp, createdId, fetched,
                   pollResult, pollInst, changed, formatted, timestamps, errLocations,
                   target>>
    /\ UNCHANGED <<cfgLocation, listed, keys>>
    /\ UNCHANGED <<cfgVars, fnVars>>

\* UpdateResourceInstance
UpdateRequest ==
    /\ pc = "u_request"
    /\ \E r \in {OkResp(rsInstanceSuccessStatus, id)}
                \cup {ErrResp(c) : c \in {0, 500}} :
           /\ reqResp' = r
           /\ IF r.err THEN Fail("update_err") ELSE Goto(UpdateAfter("u_request"))
    /\ UNCHANGED <<id, op, existsRet, idAtStart, createdId, fetched,
                   pollResult, pollInst, changed, tagsDone, formatted, timestamps,
                   errLocations, target>>
    /\ keys' = keys \cup {request.id}
    /\ UNCHANGED <<cfgLocation, listed, fnVars>>
    /\ UNCHANGED cfgVars

\* Update after waitForResourceInstanceUpdate
UpdateAfterPoll ==
    /\ pc = "polled"
    /\ op = "update"
    /\ IF pollResult # "success" THEN Fail("wait_err") ELSE Goto("read")
    /\ UNCHANGED <<id, op, existsRet, idAtStart, reqResp, createdId, fetched,
                   pollResult, pollInst, changed, tagsDone, formatted, timestamps,
                   errLocations, target>>
    /\ UNCHANGED <<cfgLocation, listed, keys>>
    /\ UNCHANGED <<cfgVars, fnVars>>

\* resourceIBMResourceInstanceDelete up to the API client
DeleteBegin ==
    /\ id # ""
    /\ Enter("delete")
    /\ changed' = {}
    /\ request' = NoRequest
    /\ \E client \in {"ok", "rc_client_err"} :
           IF client = "ok" THEN Goto("d_request") ELSE Fail(client)
    /\ UNCHANGED id

\* Delete taking 404, not 410, for the already deleted instance
DeleteDecisionNotFound(r) ==
    IF r.err
    THEN IF r.status # 0 /\ r.status = 404 THEN "return_nil" ELSE "return_err"
    ELSE "wait"

\* What Delete does with the response of DeleteResourceInstance
DeleteDecision(r) ==
    IF r.err
    THEN IF r.status # 0 /\ r.status = 410 THEN "return_nil" ELSE "return_err"
    ELSE "wait"

\* DeleteResourceInstance
DeleteRequest ==
    /\ pc = "d_request"
    /\ \E r \in DeleteResponses :
           /\ reqResp' = r
           /\ CASE DeleteDecision(r) = "return_nil" -> Succeed
                [] DeleteDecision(r) = "return_err" -> Fail("delete_err")
                [] DeleteDecision(r) = "wait" -> Goto("wait")
    /\ UNCHANGED <<id, op, existsRet, idAtStart, createdId, fetched,
                   pollResult, pollInst, changed, tagsDone, formatted, timestamps,
                   errLocations, target>>
    /\ keys' = keys \cup {id}
    /\ UNCHANGED <<cfgLocation, listed, fnVars>>
    /\ UNCHANGED cfgVars

\* Delete after waitForResourceInstanceDelete: d.SetId("") on success
DeleteAfterPoll ==
    /\ pc = "polled"
    /\ op = "delete"
    /\ IF pollResult # "success"
       THEN Fail("wait_err") /\ UNCHANGED id
       ELSE Succeed /\ id' = ""
    /\ UNCHANGED <<op, existsRet, idAtStart, reqResp, createdId, fetched,
                   pollResult, pollInst, changed, tagsDone, formatted, timestamps,
                   errLocations, target>>
    /\ UNCHANGED <<cfgLocation, listed, keys>>
    /\ UNCHANGED <<cfgVars, fnVars>>

\* Exists comparing the state with == in place of strings.Contains
ExistsDecisionExactState(r, instanceID) ==
    IF r.err
    THEN IF r.status # 0 /\ r.status = 404
         THEN [exists |-> FALSE, err |-> FALSE, clear |-> FALSE]
         ELSE [exists |-> FALSE, err |-> TRUE, clear |-> FALSE]
    ELSE IF r.state = rsInstanceRemovedStatus \/ r.state = rsInstanceReclamation
         THEN [exists |-> FALSE, err |-> FALSE, clear |-> TRUE]
         ELSE [exists |-> (r.rid = instanceID), err |-> FALSE, clear |-> FALSE]

\* Exists calling d.SetId("") on a 404 as well
ExistsDecisionClearOn404(r, instanceID) ==
    IF r.err
    THEN IF r.status # 0 /\ r.status = 404
         THEN [exists |-> FALSE, err |-> FALSE, clear |-> TRUE]
         ELSE [exists |-> FALSE, err |-> TRUE, clear |-> FALSE]
    ELSE IF Contains(r.state, rsInstanceRemovedStatus)
            \/ Contains(r.state, rsInstanceReclamation)
         THEN [exists |-> FALSE, err |-> FALSE, clear |-> TRUE]
         ELSE [exists |-> (r.rid = instanceID), err |-> FALSE, clear |-> FALSE]

\* What Exists does with the response r of GetResourceInstance(instanceID):
\* the boolean and the error it returns, and whether it calls d.SetId("")
ExistsDecision(r, instanceID) ==
    IF r.err
    THEN IF r.status # 0 /\ r.status = 404
         THEN [exists |-> FALSE, err |-> FALSE, clear |-> FALSE]
         ELSE [exists |-> FALSE, err |-> TRUE, clear |-> FALSE]
    ELSE IF Contains(r.state, rsInstanceRemovedStatus)
            \/ Contains(r.state, rsInstanceReclamation)
         THEN [exists |-> FALSE, err |-> FALSE, clear |-> TRUE]
         ELSE [exists |-> (r.rid = instanceID), err |-> FALSE, clear |-> FALSE]

\* Exists storing the identifier of the instance it fetched
ExistsIdFetched(e, r, instanceID) ==
    IF e.clear THEN "" ELSE IF r.err THEN instanceID ELSE r.rid

\* d.Id() after Exists has decided e on the response r: d.SetId("") is the
\* one call that writes it
ExistsId(e, r, instanceID) == IF e.clear THEN "" ELSE instanceID

\* resourceIBMResourceInstanceExists: the API client, GetResourceInstance
\* by the stored identifier, and the decision
Exists ==
    /\ id # ""
    /\ pc = "idle"
    /\ \E client \in {"ok", "rc_client_err"} :
           IF client # "ok"
           THEN /\ reqResp' = NoResp
                /\ keys' = {}
                /\ existsRet' = "false"
                /\ Fail(client)
                /\ UNCHANGED id
           ELSE \E r \in ExistsResponses :
                    LET e == ExistsDecision(r, id)
                    IN  /\ reqResp' = r
                        /\ keys' = {id}
                        /\ existsRet' = IF e.exists THEN "true" ELSE "false"
                        /\ IF e.err THEN Fail("get_err") ELSE Succeed
                        /\ id' = ExistsId(e, r, id)
    /\ op' = "exists"
    /\ idAtStart' = id
    /\ createdId' = ""
    /\ fetched' = <<>>
    /\ pollResult' = "none"
    /\ pollInst' = 0
    /\ changed' = {}
    /\ tagsDone' = "none"
    /\ formatted' = {}
    /\ timestamps' = {}
    /\ errLocations' = {}
    /\ target' = ""
    /\ cfgLocation' = ""
    /\ listed' = <<>>
    /\ parameters' = NoParams
    /\ serviceEndpoints' = <<>>
    /\ remoteParams' = NoParams
    /\ request' = NoRequest
    /\ UNCHANGED fnVars

-----------------------------------------------------------------------------

Next ==
    \/ CreateBegin
    \/ CreateOffering
    \/ CreatePlan
    \/ CreateDeploymentsErr
    \/ CreateDeployments
    \/ CreateGroup
    \/ CreateRequest
    \/ WaitBegin
    \/ PollFetch
    \/ PollTimeout
    \/ CreateAfterPoll
    \/ ReadBegin
    \/ ReadBody
    \/ UpdateBegin
    \/ UpdatePlan
    \/ UpdateParams
    \/ UpdateGet
    \/ UpdateTags
    \/ UpdateRequest
    \/ UpdateAfterPoll
    \/ DeleteBegin
    \/ DeleteRequest
    \/ DeleteAfterPoll
    \/ Exists

Spec == Init /\ [][Next]_vars

\* The goroutine of WaitForState and its timer are always scheduled: a
\* poll that can fetch or time out does so.
FairSpec == Spec /\ WF_vars(PollFetch) /\ WF_vars(PollTimeout)

-----------------------------------------------------------------------------
(* filterDeployments and the coercion of a parameter value, called on their *)
(* own: arg is the argument, result the one-element sequence of the value   *)
(* returned.                                                                *)

MaxFilterLen == 3
\* a location that differs from one of Locations only in case
FilterLocations == Locations \cup {"EU-DE"}
FilterDeployments ==
    {Deployment(c, b, l) : c \in {"crn-a", "crn-b"}, b \in BOOLEAN,
                           l \in FilterLocations}

FilterInit ==
    /\ Fresh
    /\ arg \in SeqsUpTo(FilterDeployments, MaxFilterLen) \X FilterLocations
    /\ result = <<>>

FilterCall ==
    /\ result = <<>>
    /\ result' = <<filterDeployments(arg[1], arg[2])>>
    /\ UNCHANGED <<progVars, arg>>

FilterSpec == FilterInit /\ [][FilterCall]_vars

MaxStrLen == 4
Alphabet == {"[", "]", ",", "\"", "a"}
\* the values of a TypeMap of strings
Strings == SeqsUpTo(Alphabet, MaxStrLen) \cup {Chars("true"), Chars("false")}

CoerceInit ==
    /\ Fresh
    /\ arg \in Strings
    /\ result = <<>>

CoerceCall ==
    /\ result = <<>>
    /\ result' = <<coerce(arg)>>
    /\ UNCHANGED <<progVars, arg>>

CoerceSpec == CoerceInit /\ [][CoerceCall]_vars

-----------------------------------------------------------------------------
(* The properties stated of the module                                      *)

\* The state table of the design: pending and target states per operation
TablePending(o) ==
    CASE o = "create" -> {"provisioning", "in progress", "inactive"}
      [] o = "update" -> {"in progress", "inactive"}
      [] o = "delete" -> {"in progress", "inactive", "active"}
      [] OTHER -> {}

TableTarget(o) ==
    CASE o = "create" -> {"active"}
      [] o = "update" -> {"active"}
      [] o = "delete" -> {"removed", "pending_reclamation"}
      [] OTHER -> {}

Polls == {"create", "update", "delete"}
Fetches == 1..Len(fetched)
Is404(r) == r.err /\ r.status = 404
IsFetched(r) == ~r.err /\ r.status = 200
InState(r, S) == IsFetched(r) /\ r.state \in S
Returned(o) == pc = "idle" /\ op = o

\* C1: in Delete polling a fetch answered 404 is the last fetch of the poll
\* and the poll ends with success.
C1_Delete404EndsPollWithSuccess ==
    op = "delete" =>
        \A i \in Fetches :
            Is404(fetched[i]) => i = Len(fetched) /\ pollResult = "success"

\* C2: in Create polling a fetch that returns active after pending states
\* only is the last fetch of the poll, and the poll returns success with
\* the instance of that fetch.
C2_CreatePollSucceedsOnActive ==
    op = "create" =>
        \A i \in Fetches :
            ( /\ InState(fetched[i], {"active"})
              /\ \A j \in 1..(i - 1) : InState(fetched[j], TablePending("create")) )
            => /\ i = Len(fetched)
               /\ pollResult = "success"
               /\ pollInst = i

C2_Witness ==
    /\ op = "create"
    /\ Len(fetched) = 3
    /\ InState(fetched[1], TablePending("create"))
    /\ InState(fetched[2], TablePending("create"))
    /\ InState(fetched[3], {"active"})
    /\ pollResult = "success"

\* C3: in Create, Update and Delete polling a fetch that returns failed is
\* the last fetch of the poll, and the poll ends with the error of the
\* failed instance, never with success.
C3_FailedEndsPollWithError ==
    op \in Polls =>
        \A i \in Fetches :
            InState(fetched[i], {"failed"})
            => i = Len(fetched) /\ pollResult = "refresh_error"

C3_Witness ==
    /\ op = "delete"
    /\ Len(fetched) = 2
    /\ InState(fetched[1], TablePending("delete"))
    /\ InState(fetched[2], {"failed"})
    /\ pollResult = "refresh_error"

\* C4: a poll that has begun ends; and a poll all of whose fetches returned
\* a pending state ends with the timeout error, after as many fetches as
\* the deadline admits.
C4_PollTerminates ==
    /\ (pc = "poll") ~> (pc = "polled")
    /\ [](( /\ op \in Polls
            /\ pc # "poll"
            /\ pollResult \notin {"none", "rc_client_err"}
            /\ \A i \in Fetches : InState(fetched[i], TablePending(op)) )
          => pollResult = "timeout" /\ Len(fetched) = MaxFetches)

C4_Witness ==
    /\ op = "update"
    /\ pollResult = "timeout"
    /\ Len(fetched) = MaxFetches
    /\ \A i \in Fetches : InState(fetched[i], TablePending("update"))

\* C5: in every poll a fetched state that is neither pending, nor a target,
\* nor failed is the last fetch of the poll, and the poll ends with the
\* unexpected-state error; so provisioning in Update and removed in Create.
C5_UnexpectedStateEndsPoll ==
    op \in Polls =>
        \A i \in Fetches :
            ( /\ IsFetched(fetched[i])
              /\ fetched[i].state \notin
                     TablePending(op) \cup TableTarget(op) \cup {"failed"} )
            => i = Len(fetched) /\ pollResult = "unexpected_state"

C5_Witness ==
    /\ op = "update"
    /\ Len(fetched) = 2
    /\ InState(fetched[2], {"provisioning"})
    /\ pollResult = "unexpected_state"

\* C6: in Create and Update polling a fetch answered 404 is the last fetch
\* of the poll, the poll ends with an error, and Create or Update returns
\* an error.
C6_CreateUpdate404IsFatal ==
    op \in {"create", "update"} =>
        \A i \in Fetches :
            Is404(fetched[i])
            => /\ i = Len(fetched)
               /\ pollResult = "refresh_error"
               /\ pc = "idle" => ret = "err"

C6_Witness ==
    /\ Returned("update")
    /\ Len(fetched) = 2
    /\ Is404(fetched[2])
    /\ ret = "err"
    /\ failedAt = "wait_err"

\* the fetched state names removal or reclamation
SaysRemoved(r) ==
    IsFetched(r) /\ (Contains(r.state, "removed") \/ Contains(r.state, "pending_reclamation"))

\* C7, as stated: Exists returns (false, nil) on a 404 and on a state that
\* contains removed or pending_reclamation, returns an error only for a
\* fetch failure that is not a 404, and otherwise returns true exactly when
\* the fetched id is the stored one.
C7_ExistsErrorOnlyOnFetchFailure ==
    Returned("exists") =>
        /\ (Is404(reqResp) \/ SaysRemoved(reqResp))
               => existsRet = "false" /\ ret = "ok"
        /\ ret = "err" => reqResp.err /\ reqResp.status # 404
        /\ (IsFetched(reqResp) /\ ~SaysRemoved(reqResp))
               => /\ ret = "ok"
                  /\ existsRet = "true" <=> reqResp.rid = idAtStart

\* C7, amended: Exists also returns an error when it cannot obtain the
\* resource controller client, in which case it makes no fetch.
C7_ExistsResult ==
    Returned("exists") =>
        /\ (Is404(reqResp) \/ SaysRemoved(reqResp))
               => existsRet = "false" /\ ret = "ok"
        /\ ret = "err" <=> \/ failedAt = "rc_client_err" /\ reqResp = NoResp
                           \/ reqResp.err /\ reqResp.status # 404
        /\ ret = "err" => existsRet = "false"
        /\ (IsFetched(reqResp) /\ ~SaysRemoved(reqResp))
               => /\ ret = "ok"
                  /\ existsRet = "true" <=> reqResp.rid = idAtStart

C7_Witness ==
    /\ Returned("exists")
    /\ InState(reqResp, {"soft_removed"})
    /\ reqResp.rid = idAtStart
    /\ existsRet = "false"
    /\ ret = "ok"

\* C8: Exists clears the stored identifier exactly when the fetch succeeded
\* with a state that contains removed or pending_reclamation; in every
\* other case the identifier is the one Exists was entered with.
C8_ExistsClearsIdOnlyWhenRemoved ==
    Returned("exists") =>
        /\ idAtStart # ""
        /\ id = "" <=> SaysRemoved(reqResp)
        /\ ~SaysRemoved(reqResp) => id = idAtStart

C8_Witness ==
    /\ Returned("exists")
    /\ InState(reqResp, {"pending_reclamation"})
    /\ idAtStart # ""
    /\ id = ""

\* C9: once the creation request of a Create succeeded, the stored
\* identifier is the id the remote service returned: at every fetch of the
\* poll, and when Create returns, whatever step failed.
C9_CreateKeepsReturnedId ==
    (op = "create" /\ IsFetched(reqResp)) =>
        /\ reqResp.rid \in IDs
        /\ createdId = reqResp.rid
        /\ id = reqResp.rid

C9_Witness ==
    /\ Returned("create")
    /\ IsFetched(reqResp)
    /\ fetched # <<>>
    /\ tagsDone = "failed"
    /\ ret = "err"
    /\ failedAt \in ReadErrors
    /\ id = reqResp.rid

\* C10: a delete request that fails with 410 makes Delete return success
\* without a single poll fetch; one that fails otherwise makes Delete
\* return an error.
C10_DeleteGoneIsSuccess ==
    (Returned("delete") /\ reqResp.err) =>
        /\ fetched = <<>>
        /\ pollResult = "none"
        /\ IF reqResp.status = 410 THEN ret = "ok" ELSE ret = "err"

C10_Witness ==
    /\ Returned("delete")
    /\ reqResp.err
    /\ reqResp.status = 410
    /\ ret = "ok"
    /\ fetched = <<>>

\* C11: whenever Delete returns success the local identifier is empty at
\* return, after a poll that reached removed or pending_reclamation and
\* after a delete request answered with 410 alike.
C11_DeleteSuccessClearsId ==
    (Returned("delete") /\ ret = "ok") => id = ""

\* the descriptors of the listed deployments that are compatible with the
\* resource controller
CompatibleListed == {i \in DOMAIN listed : listed[i].compatible}

\* C12: when the plan has a deployment but no compatible deployment at the
\* configured location, Create fails with an error that lists exactly the
\* locations of the compatible deployments, submits no creation request and
\* sets no identifier.
C12_NoDeploymentAtLocationFails ==
    (/\ op = "create"
     /\ Len(listed) >= 1
     /\ \A i \in CompatibleListed : listed[i].location # cfgLocation)
    => /\ pc = "idle"
       /\ ret = "err"
       /\ failedAt = "no_deployment_at_location"
       /\ errLocations = {listed[i].location : i \in CompatibleListed}
       /\ reqResp = NoResp
       /\ request = NoRequest
       /\ id = ""
       /\ createdId = ""

C12_Witness ==
    /\ Returned("create")
    /\ failedAt = "no_deployment_at_location"
    /\ cfgLocation = "eu-de"
    /\ Len(listed) = 2
    /\ ~listed[1].compatible
    /\ listed[1].location = "eu-de"
    /\ listed[2].compatible
    /\ errLocations = {"us-south"}
    /\ id = ""

\* C13: for every deployment list D and location L, filterDeployments
\* returns as matches exactly the descriptors of D, in input order, that are
\* compatible and whose location equals L, and as location set exactly the
\* locations of the compatible descriptors of D; incompatible descriptors
\* contribute to neither, and an empty match list is a result like any other.
C13_FilterDeployments ==
    result # <<>> =>
        LET D == arg[1]
            L == arg[2]
            Matches(d) == d.compatible /\ d.location = L
        IN  /\ result[1].deployments = SelectSeq(D, Matches)
            /\ result[1].locations =
                   {D[i].location : i \in {j \in DOMAIN D : D[j].compatible}}

C13_Witness ==
    /\ result # <<>>
    /\ arg[2] = "eu-de"
    /\ arg[1] = <<Deployment("crn-b", TRUE, "eu-de"),
                  Deployment("crn-a", FALSE, "us-south"),
                  Deployment("crn-a", TRUE, "eu-de")>>
    /\ result[1].deployments = <<arg[1][1], arg[1][3]>>
    /\ result[1].locations = {"eu-de"}

\* the string list the claim describes for a bracketed value: the value
\* without its first and its last character, split on commas, each element
\* without its surrounding double quotes
BracketedList(v) ==
    LET inner == Split(SubSeq(v, 2, Len(v) - 1), ",")
    IN  [i \in 1..Len(inner) |-> Trim(inner[i], "\"")]

\* C14: coercion maps "true" and "false" to the matching boolean, a value
\* that starts with [ and ends with ] to the string list obtained by
\* removing the enclosing brackets, splitting on commas and trimming the
\* surrounding double quotes of each element, and passes every other value
\* through unchanged.
C14_CoercionAsStated ==
    result # <<>> =>
        result[1] =
            IF arg = Chars("true") THEN BoolValue(TRUE)
            ELSE IF arg = Chars("false") THEN BoolValue(FALSE)
            ELSE IF Len(arg) >= 1 /\ arg[1] = "[" /\ arg[Len(arg)] = "]"
            THEN ListValue(BracketedList(arg))
            ELSE StringValue(arg)

\* Update has called UpdateResourceInstance with request
UpdateSubmitted == op = "update" /\ reqResp # NoResp /\ request # NoRequest

\* C15: the submitted update request carries a name iff name changed, a plan
\* id iff plan changed and a parameters payload iff parameters or
\* service_endpoints changed; an Update in which only tags changed submits
\* no plan and no parameters and has reconciled the tags.
C15_UpdateCarriesOnlyChangedFields ==
    UpdateSubmitted =>
        /\ request.name <=> "name" \in changed
        /\ request.plan <=> "plan" \in changed
        /\ request.hasParams <=>
               ("parameters" \in changed \/ "service_endpoints" \in changed)
        /\ ~request.hasParams => request.params = NoParams
        /\ changed = {"tags"} =>
               /\ ~request.name /\ ~request.plan /\ ~request.hasParams
               /\ tagsDone \in {"ok", "failed"}

C15_Witness ==
    /\ UpdateSubmitted
    /\ pc = "wait"
    /\ changed = {"tags"}
    /\ tagsDone = "ok"
    /\ ~request.plan
    /\ ~request.hasParams

\* the errors the steps after the tag reconciliation can return
ErrorsAfterTags(o) ==
    IF o = "create" THEN ReadErrors
    ELSE {"update_err", "wait_err"} \cup ReadErrors

\* the steps after the tag reconciliation
StepsAfterTags(o) ==
    IF o = "create" THEN {"read"}
    ELSE {"u_request", "wait", "poll", "polled", "read"}

\* C16: a tag reconciliation failure does not change the outcome of Create
\* or Update: the step that fails to reconcile the tags goes on to the next
\* step (Read for Create, the update request for Update) and changes nothing
\* but the record of the tags, the callback is then at one of its remaining
\* steps, and what it returns is what those steps return.
C16_TagFailureIsNotFatal ==
    /\ [][(tagsDone # "failed" /\ tagsDone' = "failed") =>
              /\ op \in {"create", "update"}
              /\ pc' = (IF op = "create" THEN "read" ELSE "u_request")
              /\ ret' = "none"
              /\ failedAt' = ""
              /\ UNCHANGED <<id, op, reqResp, fetched, pollResult, request>>]_vars
    /\ []((op \in {"create", "update"} /\ tagsDone = "failed") =>
              IF pc = "idle"
              THEN \/ ret \in {"ok", "panic"}
                   \/ ret = "err" /\ failedAt \in ErrorsAfterTags(op)
              ELSE pc \in StepsAfterTags(op))

C16_Witness ==
    /\ Returned("update")
    /\ tagsDone = "failed"
    /\ reqResp # NoResp
    /\ pollResult = "success"
    /\ ret = "ok"

\* Update has called UpdateResourceInstance with a parameters payload
PayloadSubmitted == UpdateSubmitted /\ request.hasParams

\* C17: on Update, when the service_endpoints field is non-empty and the
\* parameters map has the key service-endpoints too, the service-endpoints
\* entry of the submitted payload is the value of the field.
C17_FieldOverridesMapEntry ==
    (/\ PayloadSubmitted
     /\ serviceEndpoints # <<>>
     /\ ServiceEndpointsKey \in DOMAIN parameters)
    => /\ ServiceEndpointsKey \in DOMAIN request.params
       /\ request.params[ServiceEndpointsKey] = StringValue(serviceEndpoints)

C17_Witness ==
    /\ PayloadSubmitted
    /\ changed = {"parameters"}
    /\ serviceEndpoints = Chars("public")
    /\ ServiceEndpointsKey \in DOMAIN parameters
    /\ parameters[ServiceEndpointsKey] = Chars("private")
    /\ request.params[ServiceEndpointsKey] = StringValue(Chars("public"))

\* C18: once the identifier is set, no step of Read, Update, Delete or
\* Exists changes it to another non-empty value: Read and Update leave it
\* as it is, Delete and Exists leave it or clear it; and every get, update
\* and delete call of these callbacks is made with the stored identifier.
C18_IdentifierIsImmutable ==
    /\ [][id # "" =>
              \/ id' = id
              \/ id' = "" /\ op' \in {"delete", "exists"}]_vars
    /\ [][op' \in {"read", "update"} => id' = id]_vars
    /\ [](op \in {"read", "update", "delete", "exists"} =>
              keys \subseteq {idAtStart})

C18_Witness ==
    /\ Returned("exists")
    /\ idAtStart = "i1"
    /\ keys = {"i1"}
    /\ IsFetched(reqResp)
    /\ reqResp.rid = "i2"
    /\ existsRet = "false"
    /\ id = "i1"

\* C19: whenever Update submits a parameters payload, the payload has the
\* coerced value of every entry of the configured parameters map (the
\* service-endpoints entry, which the field or the remote value replaces,
\* left aside), also when only service_endpoints changed.
C19_PayloadKeepsConfiguredParameters ==
    PayloadSubmitted =>
        \A k \in DOMAIN parameters \ {ServiceEndpointsKey} :
            /\ k \in DOMAIN request.params
            /\ request.params[k] = coerce(parameters[k])

\* C20: on an Update in which parameters changed and the service_endpoints
\* field is empty, the submitted payload carries the service-endpoints
\* parameter of the remote instance if it has one, and has no
\* service-endpoints key if neither the remote instance nor the parameters
\* map has one.
C20_RemoteServiceEndpointsCarried ==
    (/\ PayloadSubmitted
     /\ "parameters" \in changed
     /\ serviceEndpoints = <<>>)
    => /\ ServiceEndpointsKey \in DOMAIN remoteParams =>
              /\ ServiceEndpointsKey \in DOMAIN request.params
              /\ request.params[ServiceEndpointsKey] =
                     remoteParams[ServiceEndpointsKey]
       /\ (/\ ServiceEndpointsKey \notin DOMAIN remoteParams
           /\ ServiceEndpointsKey \notin DOMAIN parameters) =>
              ServiceEndpointsKey \notin DOMAIN request.params

C20_Witness ==
    /\ PayloadSubmitted
    /\ "parameters" \in changed
    /\ serviceEndpoints = <<>>
    /\ ServiceEndpointsKey \in DOMAIN remoteParams
    /\ remoteParams[ServiceEndpointsKey] = StringValue(Chars("private"))
    /\ ServiceEndpointsKey \in DOMAIN parameters
    /\ parameters[ServiceEndpointsKey] = Chars("true")
    /\ request.params[ServiceEndpointsKey] = StringValue(Chars("private"))

\* C21: Read formats a timestamp field only when that timestamp is present
\* on the fetched instance, and for no combination of present and absent
\* timestamps does it dereference an absent one.
C21_ReadFormatsOnlyPresentTimestamps ==
    /\ formatted \subseteq timestamps
    /\ ret # "panic"

\* the steps of Create ahead of the creation request, in the order the claim
\* gives them: offering and provisionability, plan, deployments, group
StepsBeforeRequest == <<"c_offering", "c_plan", "c_deployments", "c_group">>

\* Create has not submitted the creation request
NothingSubmitted ==
    /\ reqResp = NoResp
    /\ request = NoRequest
    /\ fetched = <<>>
    /\ pollResult = "none"
    /\ id = ""

\* C22: Create submits the creation request only after the offering lookup
\* and provisionability check, the plan lookup, the deployment listing and
\* filtering and the resource group resolution have succeeded, in that
\* order; a step that fails makes Create return an error with no request
\* submitted, no poll and no identifier.
C22_CreateRequestAfterLookups ==
    /\ [][\A i \in 1..4 :
              (op = "create" /\ pc = StepsBeforeRequest[i]) =>
                  \/ /\ pc' = (IF i < 4 THEN StepsBeforeRequest[i + 1]
                                        ELSE "c_request")
                     /\ ret' = "none"
                  \/ /\ pc' = "idle"
                     /\ ret' = "err"
                     /\ NothingSubmitted']_vars
    /\ [][(op' = "create" /\ reqResp = NoResp /\ reqResp' # NoResp) =>
              (op = "create" /\ pc = "c_request")]_vars
    /\ [][(op' = "create" /\ pc' = "c_request") =>
              (op = "create" /\ pc = "c_group")]_vars
    /\ []((op = "create" /\ reqResp = NoResp) =>
              /\ pc \in {"idle", "c_offering", "c_plan", "c_deployments",
                         "c_group", "c_request"}
              /\ pc = "idle" => ret = "err"
              /\ NothingSubmitted)

C22_Witness ==
    /\ Returned("create")
    /\ failedAt = "default_group_err"
    /\ target # ""
    /\ ret = "err"
    /\ NothingSubmitted

\* Create has called CreateResourceInstance with request
CreateSubmitted == op = "create" /\ reqResp # NoResp /\ request # NoRequest

\* C23: on Create, when the service_endpoints field is configured, the
\* service-endpoints entry of the submitted payload is the value of the
\* field, whatever the parameters map holds, also when the map has the key
\* service-endpoints itself.
C23_CreateFieldOverridesMapEntry ==
    (CreateSubmitted /\ serviceEndpoints # <<>>) =>
        /\ ServiceEndpointsKey \in DOMAIN request.params
        /\ request.params[ServiceEndpointsKey] = StringValue(serviceEndpoints)

\* C24: a poll returns success only if its last fetch succeeded with a state
\* of the target set of the operation: active for Create and Update,
\* removed or pending_reclamation for Delete; a fetch that failed or that
\* returned any other state is never the last fetch of a successful poll.
C24_SuccessOnlyOnTargetState ==
    (op \in Polls /\ pollResult = "success") =>
        /\ fetched # <<>>
        /\ InState(fetched[Len(fetched)], TableTarget(op))
        /\ pollInst = Len(fetched)

C24_Witness ==
    /\ op = "delete"
    /\ pollResult = "success"
    /\ Len(fetched) = 2
    /\ Is404(fetched[1])
    /\ InState(fetched[2], {"pending_reclamation"})

\* UpdateTagsUsingCRN has been called by the running callback
TagsAttempted == tagsDone \in {"ok", "failed"}

\* C25: in an Update in which tags changed the tags are reconciled before
\* the update request is submitted, so an Update that fails at the request
\* or in the poll returns its error after the tag reconciliation; and the
\* tags are not reconciled when the instance fetch ahead of them failed.
C25_TagsBeforeUpdateRequest ==
    /\ []((op = "update" /\ "tags" \in changed /\ reqResp # NoResp) =>
              TagsAttempted)
    /\ []((/\ Returned("update")
           /\ "tags" \in changed
           /\ ret = "err"
           /\ failedAt \in {"update_err", "wait_err"}) => TagsAttempted)
    /\ []((Returned("update") /\ reqResp = NoResp /\ failedAt = "get_err") =>
              tagsDone = "none")
    /\ [][(op' = "update" /\ ~TagsAttempted /\ TagsAttempted') =>
              /\ pc = "u_tags"
              /\ "tags" \in changed
              /\ reqResp = NoResp]_vars
    /\ [][(op' = "update" /\ pc' = "u_tags") => pc = "u_get"]_vars

C25_Witness ==
    /\ Returned("update")
    /\ "tags" \in changed
    /\ tagsDone = "ok"
    /\ ret = "err"
    /\ failedAt = "wait_err"
    /\ pollResult = "timeout"

=============================================================================
